---- MODULE Spec2Model ----
(***************************************************************************)
(* Model of the Wallet plugin sagas (plugins/Wallet/js/sagas/wallet.js).   *)
(*                                                                         *)
(* Every saga is forked by takeEvery when its command action is            *)
(* dispatched.  A forked saga runs synchronously up to its first yield:    *)
(* it issues its siadCall (or, for sendCurrencySaga, throws in the local   *)
(* validation and reports the error).  When the promise of the call        *)
(* settles the saga resumes in its try or catch branch; the put and take   *)
(* effects it yields there are run one at a time by the middleware.        *)
(***************************************************************************)
EXTENDS Integers, Sequences, FiniteSets, TLC

\* ------------------------------------------------------------------------
\* Bounds of the model
\* ------------------------------------------------------------------------

\* Number of command actions the UI dispatches in one run of Spec.
MaxCommands == 1

\* Number of command actions the UI dispatches in one run of ConcurrentSpec.
MaxConcurrent == 2

\* Number of command actions the UI dispatches in one run of DialogSpec.
MaxDialog == 3

\* Number of command actions the UI dispatches in one run of WaitSpec.
MaxWait == 3

\* ------------------------------------------------------------------------
\* JavaScript values
\* ------------------------------------------------------------------------

\* The JavaScript value undefined (different from every string of the model).
Undefined == "undefined"

\* The command kinds, named by the action type constants of the watchers.
Kinds ==
  { "GET_LOCK_STATUS", "UNLOCK_WALLET", "LOCK_WALLET", "CREATE_NEW_WALLET",
    "GET_BALANCE", "GET_TRANSACTIONS", "GET_NEW_RECEIVE_ADDRESS",
    "SEND_CURRENCY", "GET_SYNCSTATE" }

\* Values the fields of a SEND_CURRENCY action take.
Amounts == { Undefined, "", "5" }
Destinations == { Undefined, "", "addr" }
CurrencyTypes == { Undefined, "", "bogus", "siacoins", "siafunds" }

\* Passwords of an UNLOCK_WALLET action.
Passwords == { "hunter2" }

\* The payload of an action: a field the action does not carry reads as
\* undefined.
NoPayload ==
  [ password |-> Undefined, currencytype |-> Undefined,
    amount |-> Undefined, destination |-> Undefined ]

\* The command actions the UI dispatches.
Commands ==
  [ type : Kinds \ { "UNLOCK_WALLET", "SEND_CURRENCY" },
    password : { Undefined }, currencytype : { Undefined },
    amount : { Undefined }, destination : { Undefined } ]
  \cup
  [ type : { "UNLOCK_WALLET" },
    password : Passwords, currencytype : { Undefined },
    amount : { Undefined }, destination : { Undefined } ]
  \cup
  [ type : { "SEND_CURRENCY" },
    password : { Undefined }, currencytype : CurrencyTypes,
    amount : Amounts, destination : Destinations ]

\* What a rejected siadCall throws: an Error object with a message, or a
\* value without a message property (str is the result of toString()).
Errors ==
  { [ message |-> "siad failure", str |-> "Error: siad failure" ],
    [ message |-> Undefined, str |-> "ETIMEDOUT" ] }

\* The object literals sendCurrencySaga throws.
AmountDestinationError ==
  [ message |-> "You must specify an amount and a destination to send Siacoin!",
    str |-> "[object Object]" ]

InvalidCurrencyError ==
  [ message |-> "Invalid currency type!", str |-> "[object Object]" ]

\* ------------------------------------------------------------------------
\* Store actions and saga effects
\* ------------------------------------------------------------------------

\* An action creator of actions/wallet.js or actions/error.js: the action
\* type and the arguments it carries.
Action(type, args) == [ type |-> type, args |-> args ]

\* yield put(action)
put(action) == [ eff |-> "put", action |-> action ]

\* yield take(pattern)
take(pattern) == [ eff |-> "take", action |-> Action(pattern, <<>>) ]

\* How the try block of a saga went: its siadCall is pending, resolved with
\* a response or rejected with e, or the saga threw e before the call.
Pending == [ status |-> "pending" ]
Resolved(response) == [ status |-> "resolved", response |-> response ]
Rejected(e) == [ status |-> "rejected", e |-> e ]
Thrown(e) == [ status |-> "thrown", e |-> e ]

\* siadCall(url) and siadCall({url, method, timeout, qs}); timeout 0 stands
\* for a call that sets no timeout.  NoCall: no call was issued.
NoCall == [ url |-> Undefined ]
Get(url) == [ url |-> url, method |-> "GET", timeout |-> 0, qs |-> <<>> ]
Post(url, timeout, qs) ==
  [ url |-> url, method |-> "POST", timeout |-> timeout, qs |-> qs ]


\* What a try or catch block does: the effects it yields, in order, and
\* its calls of SiaAPI.showError and console.error.
Outcome(effects, shown, console) ==
  [ effects |-> effects, shown |-> shown, console |-> console ]

\* sendError(e): the notification handed to SiaAPI.showError.
sendError(e) ==
  [ title |-> "Sia-UI Wallet Error",
    content |-> IF e.message # Undefined THEN e.message ELSE e.str ]

\* console.error(prefix + e.toString())
consoleError(prefix, e) == << prefix, e.str >>

\* ------------------------------------------------------------------------
\* The sagas: for each, the siadCall it issues, what its try block does
\* with the response and what its catch block does with the error.
\* ------------------------------------------------------------------------

getLockStatusCall(action) == Get("/wallet")

\* getLockStatusSaga with the test of response.unlocked inverted.
getLockStatusTryInverted(action, response) ==
  Outcome(<< put(IF response.unlocked
                   THEN Action("SET_LOCKED", <<>>)
                   ELSE Action("SET_UNLOCKED", <<>>)),
             put(IF response.encrypted
                   THEN Action("SET_ENCRYPTED", <<>>)
                   ELSE Action("SET_UNENCRYPTED", <<>>)) >>,
          <<>>, <<>>)

getLockStatusTry(action, response) ==
  Outcome(<< put(IF ~response.unlocked
                   THEN Action("SET_LOCKED", <<>>)
                   ELSE Action("SET_UNLOCKED", <<>>)),
             put(IF response.encrypted
                   THEN Action("SET_ENCRYPTED", <<>>)
                   ELSE Action("SET_UNENCRYPTED", <<>>)) >>,
          <<>>, <<>>)

getLockStatusCatch(e) ==
  Outcome(<<>>, <<>>, << consoleError("error fetching lock status: ", e) >>)

\* timeout: 12000000, "20 minute timeout for unlocking"
UnlockTimeout == 12000000

walletUnlockCall(action) ==
  Post("/wallet/unlock", UnlockTimeout, [ encryptionpassword |-> action.password ])

\* walletUnlockSaga leaving the password in its field on success.
walletUnlockTryNoClear(action, response) ==
  Outcome(<< put(Action("SET_ENCRYPTED", <<>>)),
             put(Action("SET_UNLOCKED", <<>>)) >>,
          <<>>, <<>>)

walletUnlockTry(action, response) ==
  Outcome(<< put(Action("SET_ENCRYPTED", <<>>)),
             put(Action("SET_UNLOCKED", <<>>)),
             put(Action("HANDLE_PASSWORD_CHANGE", << "" >>)) >>,
          <<>>, <<>>)

\* walletUnlockSaga dispatching setUnlocked() in its catch block too.
walletUnlockCatchUnlocking(e) ==
  Outcome(<< put(Action("SET_UNLOCKED", <<>>)),
             put(Action("HANDLE_PASSWORD_CHANGE", << "" >>)),
             put(Action("WALLET_UNLOCK_ERROR", << e.message >>)) >>,
          <<>>, <<>>)

\* walletUnlockSaga reporting the error before it clears the password.
walletUnlockCatchErrorFirst(e) ==
  Outcome(<< put(Action("WALLET_UNLOCK_ERROR", << e.message >>)),
             put(Action("HANDLE_PASSWORD_CHANGE", << "" >>)) >>,
          <<>>, <<>>)

\* walletUnlockSaga reporting the error with sendError, as the other sagas do.
walletUnlockCatchNotifying(e) ==
  Outcome(<< put(Action("HANDLE_PASSWORD_CHANGE", << "" >>)) >>,
          << sendError(e) >>, <<>>)

walletUnlockCatch(e) ==
  Outcome(<< put(Action("HANDLE_PASSWORD_CHANGE", << "" >>)),
             put(Action("WALLET_UNLOCK_ERROR", << e.message >>)) >>,
          <<>>, <<>>)

walletLockCall(action) == Post("/wallet/lock", 0, <<>>)

\* walletLockSaga dispatching setUnlocked() in place of setLocked().
walletLockTryUnlocking(action, response) ==
  Outcome(<< put(Action("SET_ENCRYPTED", <<>>)),
             put(Action("SET_UNLOCKED", <<>>)) >>,
          <<>>, <<>>)

walletLockTry(action, response) ==
  Outcome(<< put(Action("SET_ENCRYPTED", <<>>)),
             put(Action("SET_LOCKED", <<>>)) >>,
          <<>>, <<>>)

walletLockCatch(e) == Outcome(<<>>, << sendError(e) >>, <<>>)

createWalletCall(action) == Post("/wallet/init", 0, [ dictionary |-> "english" ])

\* createWalletSaga returning after its take, without the dismissal.
createWalletTryNoDismiss(action, response) ==
  Outcome(<< put(Action("SHOW_NEW_WALLET_DIALOG",
                        << response.primaryseed, response.primaryseed >>)),
             take("SET_UNLOCKED") >>,
          <<>>, <<>>)

\* createWalletSaga without its take: the dialog is dismissed at once.
createWalletTryNoTake(action, response) ==
  Outcome(<< put(Action("SHOW_NEW_WALLET_DIALOG",
                        << response.primaryseed, response.primaryseed >>)),
             put(Action("DISMISS_NEW_WALLET_DIALOG", <<>>)) >>,
          <<>>, <<>>)

createWalletTry(action, response) ==
  Outcome(<< put(Action("SHOW_NEW_WALLET_DIALOG",
                        << response.primaryseed, response.primaryseed >>)),
             take("SET_UNLOCKED"),
             put(Action("DISMISS_NEW_WALLET_DIALOG", <<>>)) >>,
          <<>>, <<>>)

createWalletCatch(e) == Outcome(<<>>, << sendError(e) >>, <<>>)

getNewReceiveAddressCall(action) == Get("/wallet/address")

getNewReceiveAddressTry(action, response) ==
  Outcome(<< put(Action("SET_RECEIVE_ADDRESS", << response.address >>)),
             put(Action("SHOW_RECEIVE_PROMPT", <<>>)) >>,
          <<>>, <<>>)

\* getNewReceiveAddressSaga with an empty catch block.
getNewReceiveAddressCatchSilent(e) == Outcome(<<>>, <<>>, <<>>)

getNewReceiveAddressCatch(e) == Outcome(<<>>, << sendError(e) >>, <<>>)

getSyncStateCall(action) == Get("/consensus")

getSyncStateTry(action, response) ==
  Outcome(<< put(Action("SET_SYNCSTATE", << response.synced >>)) >>, <<>>, <<>>)

getSyncStateCatch(e) ==
  Outcome(<<>>, <<>>, << consoleError("error fetching sync status: ", e) >>)

\* ------------------------------------------------------------------------
\* Currency arithmetic (SiaAPI and its BigNumber values)
\* ------------------------------------------------------------------------

RECURSIVE Pow10(_)
Pow10(k) == IF k = 0 THEN 1 ELSE 10 * Pow10(k - 1)

Abs(n) == IF n < 0 THEN -n ELSE n

\* A BigNumber: the integer n scaled by a power of ten, n * 10^exp.
BigNumber(n, exp) == [ n |-> n, exp |-> exp ]

\* Number of decimal places by which a siacoin exceeds a hasting.
HastingsExp == 24

\* SiaAPI.hastingsToSiacoins(hastings): hastings / 10^24.
hastingsToSiacoins(hastings) == BigNumber(hastings.n, hastings.exp - HastingsExp)

\* SiaAPI.siacoinsToHastings(siacoins): siacoins * 10^24.
siacoinsToHastings(siacoins) == BigNumber(siacoins.n, siacoins.exp + HastingsExp)

\* new BigNumber(string) for the amounts a SEND_CURRENCY action carries.
ParseAmount(str) == CASE str = "5" -> BigNumber(5, 0)

\* a.minus(b)
minus(a, b) ==
  IF b.n = 0 THEN a
  ELSE IF a.n = 0 THEN BigNumber(-b.n, b.exp)
  ELSE LET m == IF a.exp < b.exp THEN a.exp ELSE b.exp
       IN  BigNumber(a.n * Pow10(a.exp - m) - b.n * Pow10(b.exp - m), m)

\* A BigNumber without trailing zeros in its fraction.
RECURSIVE Normalize(_)
Normalize(x) ==
  IF x.n = 0 THEN BigNumber(0, 0)
  ELSE IF x.exp < 0 /\ x.n % 10 = 0
    THEN Normalize(BigNumber(x.n \div 10, x.exp + 1))
    ELSE x

\* x.round(dp): at most dp decimal places, halves rounded away from zero.
round(x, dp) ==
  LET y == Normalize(x)
  IN  IF y.exp >= -dp
        THEN y
        ELSE LET d == Pow10((-dp) - y.exp)
                 q == Abs(y.n) \div d
                 r == Abs(y.n) % d
                 up == IF 2 * r >= d THEN q + 1 ELSE q
             IN  BigNumber(IF y.n < 0 THEN -up ELSE up, -dp)

DigitChar(d) ==
  CASE d = 0 -> "0" [] d = 1 -> "1" [] d = 2 -> "2" [] d = 3 -> "3"
    [] d = 4 -> "4" [] d = 5 -> "5" [] d = 6 -> "6" [] d = 7 -> "7"
    [] d = 8 -> "8" [] d = 9 -> "9"

\* The decimal digits of a natural number, most significant first.
RECURSIVE Digits(_)
Digits(n) ==
  IF n < 10 THEN << DigitChar(n) >>
  ELSE Append(Digits(n \div 10), DigitChar(n % 10))

\* The last k decimal digits of a natural number, with leading zeros.
RECURSIVE FixedDigits(_, _)
FixedDigits(n, k) ==
  IF k = 0 THEN <<>>
  ELSE Append(FixedDigits(n \div 10, k - 1), DigitChar(n % 10))

Zeros(k) == [ i \in 1..k |-> "0" ]

\* x.toString(): the characters of the number in normal notation; a
\* fraction is written without trailing zeros.
toString(x) ==
  LET y == Normalize(x)
      sign == IF y.n < 0 THEN << "-" >> ELSE <<>>
      a == Abs(y.n)
  IN  IF y.exp >= 0
        THEN sign \o Digits(a) \o (IF a = 0 THEN <<>> ELSE Zeros(y.exp))
        ELSE sign \o Digits(a \div Pow10(-y.exp)) \o << "." >>
                  \o FixedDigits(a % Pow10(-y.exp), -y.exp)


\* ------------------------------------------------------------------------
\* The sagas with currency values
\* ------------------------------------------------------------------------

getBalanceCall(action) == Get("/wallet")

\* getBalanceSaga subtracting the incoming amount from the outgoing one.
getBalanceTryOutgoingMinusIncoming(action, response) ==
  LET confirmed == hastingsToSiacoins(response.confirmedsiacoinbalance)
      unconfirmedIncoming == hastingsToSiacoins(response.unconfirmedincomingsiacoins)
      unconfirmedOutgoing == hastingsToSiacoins(response.unconfirmedoutgoingsiacoins)
      unconfirmed == minus(unconfirmedOutgoing, unconfirmedIncoming)
  IN  Outcome(<< put(Action("SET_BALANCE",
                            << toString(round(confirmed, 2)),
                               toString(round(unconfirmed, 2)),
                               response.siafundbalance >>)) >>,
              <<>>, <<>>)

\* getBalanceSaga calling round() without the number of decimal places.
getBalanceTryWholeCoins(action, response) ==
  LET confirmed == hastingsToSiacoins(response.confirmedsiacoinbalance)
      unconfirmedIncoming == hastingsToSiacoins(response.unconfirmedincomingsiacoins)
      unconfirmedOutgoing == hastingsToSiacoins(response.unconfirmedoutgoingsiacoins)
      unconfirmed == minus(unconfirmedIncoming, unconfirmedOutgoing)
  IN  Outcome(<< put(Action("SET_BALANCE",
                            << toString(round(confirmed, 0)),
                               toString(round(unconfirmed, 0)),
                               response.siafundbalance >>)) >>,
              <<>>, <<>>)

getBalanceTry(action, response) ==
  LET confirmed == hastingsToSiacoins(response.confirmedsiacoinbalance)
      unconfirmedIncoming == hastingsToSiacoins(response.unconfirmedincomingsiacoins)
      unconfirmedOutgoing == hastingsToSiacoins(response.unconfirmedoutgoingsiacoins)
      unconfirmed == minus(unconfirmedIncoming, unconfirmedOutgoing)
  IN  Outcome(<< put(Action("SET_BALANCE",
                            << toString(round(confirmed, 2)),
                               toString(round(unconfirmed, 2)),
                               response.siafundbalance >>)) >>,
              <<>>, <<>>)

\* getBalanceSaga reporting its failure with sendError.
getBalanceCatchNotifying(e) == Outcome(<<>>, << sendError(e) >>, <<>>)

getBalanceCatch(e) ==
  Outcome(<<>>, <<>>, << consoleError("error fetching balance: ", e) >>)

\* parseRawTransactions(response) of helpers.js: the parsed form of the raw
\* transaction list.
parseRawTransactions(response) == [ parsed |-> response ]

getTransactionsCall(action) ==
  Get("/wallet/transactions?startheight=0&endheight=-1")

getTransactionsTry(action, response) ==
  Outcome(<< put(Action("SET_TRANSACTIONS", << parseRawTransactions(response) >>)) >>,
          <<>>, <<>>)

getTransactionsCatch(e) ==
  Outcome(<<>>, <<>>, << consoleError("error fetching transactions: ", e) >>)

\* sendCurrencySaga without the test of an empty destination.
sendCurrencyThrowsNoDestinationTest(action) ==
  IF \/ action.currencytype = Undefined \/ action.amount = Undefined
     \/ action.destination = Undefined \/ action.amount = ""
     \/ action.currencytype = ""
    THEN << AmountDestinationError >>
  ELSE IF action.currencytype # "siafunds" /\ action.currencytype # "siacoins"
    THEN << InvalidCurrencyError >>
  ELSE <<>>

\* sendCurrencySaga without the test of the currency type.
sendCurrencyThrowsNoTypeTest(action) ==
  IF \/ action.currencytype = Undefined \/ action.amount = Undefined
     \/ action.destination = Undefined \/ action.amount = ""
     \/ action.currencytype = "" \/ action.destination = ""
    THEN << AmountDestinationError >>
  ELSE <<>>

\* The checks sendCurrencySaga makes before its call: the values it throws
\* (none when the action passes).
sendCurrencyThrows(action) ==
  IF \/ action.currencytype = Undefined \/ action.amount = Undefined
     \/ action.destination = Undefined \/ action.amount = ""
     \/ action.currencytype = "" \/ action.destination = ""
    THEN << AmountDestinationError >>
  ELSE IF action.currencytype # "siafunds" /\ action.currencytype # "siacoins"
    THEN << InvalidCurrencyError >>
  ELSE <<>>

\* The amounts sendCurrencySaga hands to SiaAPI.siacoinsToHastings.
sendCurrencyConversions(action) ==
  IF action.currencytype = "siacoins" THEN << action.amount >> ELSE <<>>

\* '/wallet/' + action.currencytype
WalletUrl(currencytype) ==
  CASE currencytype = "siacoins" -> "/wallet/siacoins"
    [] currencytype = "siafunds" -> "/wallet/siafunds"
    [] OTHER -> "/wallet/?"

sendCurrencyCall(action) ==
  LET sendAmount ==
        IF action.currencytype = "siacoins"
          THEN toString(siacoinsToHastings(ParseAmount(action.amount)))
          ELSE action.amount
  IN  Post(WalletUrl(action.currencytype), 0,
           [ destination |-> action.destination, amount |-> sendAmount ])

\* sendCurrencySaga refreshing the transactions before the balance.
sendCurrencyTryTransactionsFirst(action, response) ==
  Outcome(<< put(Action("CLOSE_SEND_PROMPT", <<>>)),
             put(Action("GET_TRANSACTIONS", <<>>)),
             put(Action("GET_BALANCE", <<>>)),
             put(Action("SET_SEND_AMOUNT", << "" >>)),
             put(Action("SET_SEND_ADDRESS", << "" >>)) >>,
          <<>>, <<>>)

sendCurrencyTry(action, response) ==
  Outcome(<< put(Action("CLOSE_SEND_PROMPT", <<>>)),
             put(Action("GET_BALANCE", <<>>)),
             put(Action("GET_TRANSACTIONS", <<>>)),
             put(Action("SET_SEND_AMOUNT", << "" >>)),
             put(Action("SET_SEND_ADDRESS", << "" >>)) >>,
          <<>>, <<>>)

\* sendCurrencySaga clearing the input fields when the send failed.
sendCurrencyCatchClearing(e) ==
  Outcome(<< put(Action("SET_SEND_AMOUNT", << "" >>)),
             put(Action("SET_SEND_ADDRESS", << "" >>)) >>,
          << sendError(e) >>, <<>>)

sendCurrencyCatch(e) == Outcome(<<>>, << sendError(e) >>, <<>>)

\* ------------------------------------------------------------------------
\* What siad answers
\* ------------------------------------------------------------------------

\* The responses a resolved siadCall of each command kind may carry.
Responses(kind) ==
  CASE kind = "GET_LOCK_STATUS" -> [ unlocked : BOOLEAN, encrypted : BOOLEAN ]
    [] kind = "CREATE_NEW_WALLET" -> { [ primaryseed |-> "seed words" ] }
    [] kind = "GET_BALANCE" ->
         { [ confirmedsiacoinbalance |-> BigNumber(25, 23),
             unconfirmedincomingsiacoins |-> BigNumber(0, 0),
             unconfirmedoutgoingsiacoins |-> BigNumber(0, 0),
             siafundbalance |-> 10 ],
           [ confirmedsiacoinbalance |-> BigNumber(1005, 21),
             unconfirmedincomingsiacoins |-> BigNumber(1, 24),
             unconfirmedoutgoingsiacoins |-> BigNumber(35, 23),
             siafundbalance |-> 0 ],
           [ confirmedsiacoinbalance |-> BigNumber(0, 0),
             unconfirmedincomingsiacoins |-> BigNumber(275, 22),
             unconfirmedoutgoingsiacoins |-> BigNumber(15, 23),
             siafundbalance |-> 7 ] }
    [] kind = "GET_TRANSACTIONS" -> { << "tx" >> }
    [] kind = "GET_NEW_RECEIVE_ADDRESS" -> { [ address |-> "addr1" ] }
    [] kind = "GET_SYNCSTATE" -> [ synced : BOOLEAN ]
    [] OTHER -> { [ success |-> TRUE ] }


\* ------------------------------------------------------------------------
\* The middleware
\* ------------------------------------------------------------------------

VARIABLES
  handlers,   \* the saga instances forked so far, by their place in the fork tree
  ncmd        \* per command kind, the command actions dispatched

vars == << handlers, ncmd >>

\* The watchers: the saga takeEvery forks for each command kind.
Throws(kind, action) ==
  IF kind = "SEND_CURRENCY" THEN sendCurrencyThrows(action) ELSE <<>>

Conversions(kind, action) ==
  IF kind = "SEND_CURRENCY" THEN sendCurrencyConversions(action) ELSE <<>>

Call(kind, action) ==
  CASE kind = "CREATE_NEW_WALLET" -> createWalletCall(action)
    [] kind = "GET_LOCK_STATUS" -> getLockStatusCall(action)
    [] kind = "UNLOCK_WALLET" -> walletUnlockCall(action)
    [] kind = "LOCK_WALLET" -> walletLockCall(action)
    [] kind = "GET_BALANCE" -> getBalanceCall(action)
    [] kind = "GET_TRANSACTIONS" -> getTransactionsCall(action)
    [] kind = "GET_NEW_RECEIVE_ADDRESS" -> getNewReceiveAddressCall(action)
    [] kind = "SEND_CURRENCY" -> sendCurrencyCall(action)
    [] kind = "GET_SYNCSTATE" -> getSyncStateCall(action)

Try(kind, action, response) ==
  CASE kind = "CREATE_NEW_WALLET" -> createWalletTry(action, response)
    [] kind = "GET_LOCK_STATUS" -> getLockStatusTry(action, response)
    [] kind = "UNLOCK_WALLET" -> walletUnlockTry(action, response)
    [] kind = "LOCK_WALLET" -> walletLockTry(action, response)
    [] kind = "GET_BALANCE" -> getBalanceTry(action, response)
    [] kind = "GET_TRANSACTIONS" -> getTransactionsTry(action, response)
    [] kind = "GET_NEW_RECEIVE_ADDRESS" -> getNewReceiveAddressTry(action, response)
    [] kind = "SEND_CURRENCY" -> sendCurrencyTry(action, response)
    [] kind = "GET_SYNCSTATE" -> getSyncStateTry(action, response)

Catch(kind, e) ==
  CASE kind = "CREATE_NEW_WALLET" -> createWalletCatch(e)
    [] kind = "GET_LOCK_STATUS" -> getLockStatusCatch(e)
    [] kind = "UNLOCK_WALLET" -> walletUnlockCatch(e)
    [] kind = "LOCK_WALLET" -> walletLockCatch(e)
    [] kind = "GET_BALANCE" -> getBalanceCatch(e)
    [] kind = "GET_TRANSACTIONS" -> getTransactionsCatch(e)
    [] kind = "GET_NEW_RECEIVE_ADDRESS" -> getNewReceiveAddressCatch(e)
    [] kind = "SEND_CURRENCY" -> sendCurrencyCatch(e)
    [] kind = "GET_SYNCSTATE" -> getSyncStateCatch(e)

\* Where a saga stands with the effects it has left: at a put the
\* middleware has yet to run, suspended in a take, or returned.
PcOf(todo) ==
  IF todo = <<>> THEN "done"
  ELSE IF Head(todo).eff = "put" THEN "put" ELSE "take"

\* A saga forked for a command action.  It runs up to its siadCall, or
\* through its catch block when it throws before the call.
fork(action) ==
  LET kind == action.type
      thrown == Throws(kind, action)
  IN  IF thrown # <<>>
        THEN LET c == Catch(kind, thrown[1])
             IN  [ kind |-> kind, action |-> action, pc |-> PcOf(c.effects),
                   request |-> NoCall, conversions |-> <<>>,
                   reply |-> Thrown(thrown[1]),
                   todo |-> c.effects, out |-> <<>>, taken |-> <<>>,
                   shown |-> c.shown, console |-> c.console ]
        ELSE [ kind |-> kind, action |-> action, pc |-> "call",
               request |-> Call(kind, action),
               conversions |-> Conversions(kind, action),
               reply |-> Pending,
               todo |-> <<>>, out |-> <<>>, taken |-> <<>>,
               shown |-> <<>>, console |-> <<>> ]

\* The instances forked by the instance at path p (by the UI for p = <<>>).
Children(hs, p) ==
  { q \in DOMAIN hs : Len(q) = Len(p) + 1 /\ SubSeq(q, 1, Len(p)) = p }

\* A watcher that ignores a command action while an instance forked for
\* the same kind is still waiting for its call.
takeLeading(hs, action, p) ==
  IF \E q \in DOMAIN hs : hs[q].kind = action.type /\ hs[q].pc = "call"
    THEN hs
    ELSE LET id == Append(p, Cardinality(Children(hs, p)) + 1)
         IN  [ q \in DOMAIN hs \cup { id } |-> IF q = id THEN fork(action) ELSE hs[q] ]

\* takeEvery(pattern, saga): every command action forks a new instance,
\* whatever the instances forked before it are doing.  The new instance is
\* the next child of the instance that dispatched the action.
takeEvery(hs, action, p) ==
  LET id == Append(p, Cardinality(Children(hs, p)) + 1)
  IN  [ q \in DOMAIN hs \cup { id } |-> IF q = id THEN fork(action) ELSE hs[q] ]

\* A command action with no payload, as the action creators getBalance()
\* and getTransactions() build it.
Command(type) == [ type |-> type ] @@ NoPayload

\* The handlers forked for commands of the UI.
UIHandlers == Children(handlers, <<>>)

Init ==
  /\ handlers = <<>>
  /\ ncmd = [ k \in Kinds |-> 0 ]

\* The UI dispatches a command action, at most max times in a run.
Dispatch(cmd, max) ==
  /\ Cardinality(UIHandlers) < max
  /\ handlers' = takeEvery(handlers, cmd, <<>>)
  /\ ncmd' = [ ncmd EXCEPT ![cmd.type] = @ + 1 ]

\* A middleware that answers the calls one at a time: the call of h settles
\* only when no command dispatched before h's is still waiting for its call.
SettleInOrder(h, reply) ==
  /\ handlers[h].pc = "call"
  /\ \A g \in DOMAIN handlers : g[1] < h[1] => handlers[g].pc # "call"
  /\ LET o == IF reply.status = "resolved"
                THEN Try(handlers[h].kind, handlers[h].action, reply.response)
                ELSE Catch(handlers[h].kind, reply.e)
     IN  handlers' = [ handlers EXCEPT ![h] =
           [ @ EXCEPT !.reply = reply, !.todo = o.effects, !.pc = PcOf(o.effects),
                      !.shown = o.shown, !.console = o.console ] ]
  /\ UNCHANGED ncmd

\* The promise of handler h's siadCall settles and the saga resumes in its
\* try block or its catch block, up to the first effect it yields there.
Settle(h, reply) ==
  /\ handlers[h].pc = "call"
  /\ LET o == IF reply.status = "resolved"
                THEN Try(handlers[h].kind, handlers[h].action, reply.response)
                ELSE Catch(handlers[h].kind, reply.e)
     IN  handlers' = [ handlers EXCEPT ![h] =
           [ @ EXCEPT !.reply = reply, !.todo = o.effects, !.pc = PcOf(o.effects),
                      !.shown = o.shown, !.console = o.console ] ]
  /\ UNCHANGED ncmd

Resolve(h) ==
  \E response \in Responses(handlers[h].kind) : Settle(h, Resolved(response))

Reject(h) == \E e \in Errors : Settle(h, Rejected(e))

\* A middleware that hands a dispatched action to one taker only: of the
\* sagas suspended in a take of the action type, the one forked first.
RunPutOneTaker(h) ==
  /\ handlers[h].pc = "put"
  /\ LET a == Head(handlers[h].todo).action
         takers == { g \in DOMAIN handlers \ { h } :
                       /\ handlers[g].pc = "take"
                       /\ Head(handlers[g].todo).action.type = a.type }
         resumed == [ g \in DOMAIN handlers |->
           IF g = h
             THEN [ handlers[g] EXCEPT
                      !.out = Append(@, a),
                      !.todo = Tail(@), !.pc = PcOf(Tail(handlers[g].todo)) ]
           ELSE IF g \in takers /\ \A f \in takers : g[1] <= f[1]
             THEN [ handlers[g] EXCEPT
                      !.taken = Append(@, [ action |-> a, from |-> h ]),
                      !.todo = Tail(@), !.pc = PcOf(Tail(handlers[g].todo)) ]
             ELSE handlers[g] ]
     IN  /\ handlers' = IF a.type \in Kinds
                          THEN takeEvery(resumed, Command(a.type), h)
                          ELSE resumed
         /\ ncmd' = IF a.type \in Kinds
                      THEN [ ncmd EXCEPT ![a.type] = @ + 1 ]
                      ELSE ncmd

\* The middleware runs the put handler h has yielded: the action reaches
\* the store, every saga suspended in a take of that action type resumes
\* with the action, a command action forks its saga, and h goes on to its
\* next effect.
RunPut(h) ==
  /\ handlers[h].pc = "put"
  /\ LET a == Head(handlers[h].todo).action
         resumed == [ g \in DOMAIN handlers |->
           IF g = h
             THEN [ handlers[g] EXCEPT
                      !.out = Append(@, a),
                      !.todo = Tail(@), !.pc = PcOf(Tail(handlers[g].todo)) ]
           ELSE IF handlers[g].pc = "take" /\ Head(handlers[g].todo).action.type = a.type
             THEN [ handlers[g] EXCEPT
                      !.taken = Append(@, [ action |-> a, from |-> h ]),
                      !.todo = Tail(@), !.pc = PcOf(Tail(handlers[g].todo)) ]
             ELSE handlers[g] ]
     IN  /\ handlers' = IF a.type \in Kinds
                          THEN takeEvery(resumed, Command(a.type), h)
                          ELSE resumed
         /\ ncmd' = IF a.type \in Kinds
                      THEN [ ncmd EXCEPT ![a.type] = @ + 1 ]
                      ELSE ncmd

Next ==
  \/ \E cmd \in Commands : Dispatch(cmd, MaxCommands)
  \/ \E h \in DOMAIN handlers : Resolve(h)
  \/ \E h \in DOMAIN handlers : Reject(h)
  \/ \E h \in DOMAIN handlers : RunPut(h)

Spec == Init /\ [][Next]_vars

\* The commands of every kind but SEND_CURRENCY, several of them in flight
\* at once.
ConcurrentCommands == { cmd \in Commands : cmd.type # "SEND_CURRENCY" }

NextConcurrent ==
  \/ \E cmd \in ConcurrentCommands : Dispatch(cmd, MaxConcurrent)
  \/ \E h \in DOMAIN handlers : Resolve(h)
  \/ \E h \in DOMAIN handlers : Reject(h)
  \/ \E h \in DOMAIN handlers : RunPut(h)

ConcurrentSpec == Init /\ [][NextConcurrent]_vars

\* The commands around the new wallet dialog: wallet creation and the
\* commands that dispatch SET_UNLOCKED.
DialogCommands ==
  { cmd \in Commands :
      cmd.type \in { "CREATE_NEW_WALLET", "UNLOCK_WALLET", "GET_LOCK_STATUS" } }

NextDialog ==
  \/ \E cmd \in DialogCommands : Dispatch(cmd, MaxDialog)
  \/ \E h \in DOMAIN handlers : Resolve(h)
  \/ \E h \in DOMAIN handlers : Reject(h)
  \/ \E h \in DOMAIN handlers : RunPut(h)

DialogSpec == Init /\ [][NextDialog]_vars

\* No saga has a yielded put that the middleware has still to run.
Idle == \A h \in DOMAIN handlers : handlers[h].pc # "put"

\* The commands around the new wallet dialog again, with the middleware's
\* scheduling: a put is dispatched as soon as the saga yields it, so the
\* puts a saga yields in a row are all run before the next command of the
\* UI or the next answer of siad is handled.  Nothing obliges siad to
\* answer a call.
NextWait ==
  \/ Idle /\ \E cmd \in DialogCommands : Dispatch(cmd, MaxWait)
  \/ Idle /\ \E h \in DOMAIN handlers : Resolve(h)
  \/ Idle /\ \E h \in DOMAIN handlers : Reject(h)
  \/ \E h \in DOMAIN handlers : RunPut(h)

\* The places in the fork tree of the handlers of WaitSpec.
WaitPaths == { << i >> : i \in 1..MaxWait }

WaitSpec ==
  /\ Init /\ [][NextWait]_vars
  /\ \A p \in WaitPaths : WF_vars(p \in DOMAIN handlers /\ RunPut(p))

\* ------------------------------------------------------------------------
\* Vocabulary of the properties
\* ------------------------------------------------------------------------

\* The types of the actions handler h has put so far, in order.
Types(h) == [ i \in 1..Len(handlers[h].out) |-> handlers[h].out[i].type ]

\* The set of those types.
Emitted(h) == { handlers[h].out[i].type : i \in 1..Len(handlers[h].out) }

\* How many actions of a type handler h has put.
Count(h, type) ==
  Cardinality({ i \in 1..Len(handlers[h].out) : handlers[h].out[i].type = type })

IsPrefix(s, t) == Len(s) <= Len(t) /\ s = SubSeq(t, 1, Len(s))

Terminated(h) == handlers[h].pc = "done"

\* The handler's try block failed: its call was rejected or it threw.
Failed(h) == handlers[h].reply.status \in { "rejected", "thrown" }

\* The handler issued a siadCall.
Called(h) == handlers[h].request.url # Undefined

PollKinds == { "GET_LOCK_STATUS", "GET_BALANCE", "GET_TRANSACTIONS", "GET_SYNCSTATE" }

NotifyKinds ==
  { "LOCK_WALLET", "CREATE_NEW_WALLET", "GET_NEW_RECEIVE_ADDRESS", "SEND_CURRENCY" }

\* The sets of action types that make up the success events of a command.
SuccessEvents(kind) ==
  CASE kind = "GET_LOCK_STATUS" ->
         { { l, e } : l \in { "SET_LOCKED", "SET_UNLOCKED" },
                      e \in { "SET_ENCRYPTED", "SET_UNENCRYPTED" } }
    [] kind = "UNLOCK_WALLET" ->
         { { "SET_ENCRYPTED", "SET_UNLOCKED", "HANDLE_PASSWORD_CHANGE" } }
    [] kind = "LOCK_WALLET" -> { { "SET_ENCRYPTED", "SET_LOCKED" } }
    [] kind = "CREATE_NEW_WALLET" ->
         { { "SHOW_NEW_WALLET_DIALOG", "DISMISS_NEW_WALLET_DIALOG" } }
    [] kind = "GET_BALANCE" -> { { "SET_BALANCE" } }
    [] kind = "GET_TRANSACTIONS" -> { { "SET_TRANSACTIONS" } }
    [] kind = "GET_NEW_RECEIVE_ADDRESS" ->
         { { "SET_RECEIVE_ADDRESS", "SHOW_RECEIVE_PROMPT" } }
    [] kind = "SEND_CURRENCY" ->
         { { "CLOSE_SEND_PROMPT", "GET_BALANCE", "GET_TRANSACTIONS",
             "SET_SEND_AMOUNT", "SET_SEND_ADDRESS" } }
    [] kind = "GET_SYNCSTATE" -> { { "SET_SYNCSTATE" } }

\* The handler has emitted the success events of its command.
Succeeded(h) == Emitted(h) \in SuccessEvents(handlers[h].kind)

\* The user-visible error reports of a handler: generic notifications and
\* WALLET_UNLOCK_ERROR actions.
UserErrors(h) == Len(handlers[h].shown) + Count(h, "WALLET_UNLOCK_ERROR")

\* ------------------------------------------------------------------------
\* C1
\* ------------------------------------------------------------------------

\* C1 as stated: every terminated handler, of every kind, has emitted either
\* the success events of its command or a user-visible error notification,
\* never both and never neither.
C1_ExactlyOneOutcome ==
  \A h \in DOMAIN handlers :
    Terminated(h) =>
      /\ Succeeded(h) \/ UserErrors(h) >= 1
      /\ ~(Succeeded(h) /\ UserErrors(h) >= 1)

\* C1 as amended: every terminated handler has either emitted the success
\* events of its command and reported no error, or reported exactly one
\* error and emitted no success event: a generic notification for lock,
\* create, receive address and send; a WALLET_UNLOCK_ERROR action, after the
\* password clear, for unlock; one console entry and no notification for
\* the poll-style commands.
C1_OneOutcomePerChannel ==
  \A h \in DOMAIN handlers :
    Terminated(h) =>
      LET hd == handlers[h]
          success ==
            /\ Succeeded(h)
            /\ hd.shown = <<>> /\ hd.console = <<>>
            /\ Count(h, "WALLET_UNLOCK_ERROR") = 0
          failure ==
            CASE hd.kind \in PollKinds ->
                   /\ hd.out = <<>>
                   /\ Len(hd.console) = 1 /\ hd.shown = <<>>
              [] hd.kind = "UNLOCK_WALLET" ->
                   /\ Types(h) = << "HANDLE_PASSWORD_CHANGE", "WALLET_UNLOCK_ERROR" >>
                   /\ hd.shown = <<>> /\ hd.console = <<>>
              [] OTHER ->
                   /\ hd.out = <<>>
                   /\ Len(hd.shown) = 1 /\ hd.console = <<>>
      IN  /\ success \/ failure
          /\ ~(success /\ failure)
          /\ success <=> hd.reply.status = "resolved"

\* A send has succeeded and terminated, and the balance refresh it
\* triggered has failed and terminated.
C1_Witness ==
  \E h \in DOMAIN handlers :
    /\ handlers[h].kind = "SEND_CURRENCY"
    /\ Terminated(h) /\ handlers[h].reply.status = "resolved"
    /\ \E c \in Children(handlers, h) :
         /\ handlers[c].kind = "GET_BALANCE"
         /\ Terminated(c) /\ handlers[c].reply.status = "rejected"

\* ------------------------------------------------------------------------
\* C2
\* ------------------------------------------------------------------------

\* C2: a GetLockStatus handler whose call resolved puts exactly two
\* actions: first SET_UNLOCKED when response.unlocked is true and SET_LOCKED
\* when it is false, then SET_ENCRYPTED when response.encrypted is true and
\* SET_UNENCRYPTED when it is false.
C2_LockStatusEvents ==
  \A h \in DOMAIN handlers :
    (handlers[h].kind = "GET_LOCK_STATUS" /\ handlers[h].reply.status = "resolved") =>
      LET response == handlers[h].reply.response
          expected ==
            << IF response.unlocked THEN "SET_UNLOCKED" ELSE "SET_LOCKED",
               IF response.encrypted THEN "SET_ENCRYPTED" ELSE "SET_UNENCRYPTED" >>
      IN  /\ IsPrefix(Types(h), expected)
          /\ Terminated(h) => Types(h) = expected
          /\ handlers[h].pc \in { "put", "done" }

\* A GetLockStatus handler has terminated on a response with unlocked false
\* and encrypted true.
C2_Witness ==
  \E h \in DOMAIN handlers :
    /\ handlers[h].kind = "GET_LOCK_STATUS"
    /\ Terminated(h) /\ handlers[h].reply.status = "resolved"
    /\ ~handlers[h].reply.response.unlocked
    /\ handlers[h].reply.response.encrypted
    /\ Count(h, "SET_LOCKED") = 1 /\ Count(h, "SET_UNLOCKED") = 0

\* ------------------------------------------------------------------------
\* C3
\* ------------------------------------------------------------------------

\* A field of an action that is undefined or the empty string.
Missing(v) == v = Undefined \/ v = ""

AmountDestinationNotice ==
  [ title |-> "Sia-UI Wallet Error",
    content |-> "You must specify an amount and a destination to send Siacoin!" ]

InvalidCurrencyNotice ==
  [ title |-> "Sia-UI Wallet Error", content |-> "Invalid currency type!" ]

\* C3: a SendCurrency handler whose amount, destination or currencytype is
\* undefined or empty issues no siadCall, whatever the currencytype: it has
\* terminated with exactly one notification, the amount/destination message,
\* and has put no action, forked no refresh and converted no amount.
C3_MissingFieldFailsLocally ==
  \A h \in DOMAIN handlers :
    LET hd == handlers[h]
    IN  ( /\ hd.kind = "SEND_CURRENCY"
          /\ \/ Missing(hd.action.amount) \/ Missing(hd.action.destination)
             \/ Missing(hd.action.currencytype) ) =>
          /\ ~Called(h)
          /\ Terminated(h)
          /\ hd.shown = << AmountDestinationNotice >>
          /\ hd.out = <<>> /\ hd.todo = <<>>
          /\ hd.console = <<>> /\ hd.conversions = <<>>
          /\ Children(handlers, h) = {}

\* A send of siacoins with an empty amount to "addr" has failed locally.
C3_Witness ==
  \E h \in DOMAIN handlers :
    /\ handlers[h].kind = "SEND_CURRENCY"
    /\ handlers[h].action.amount = ""
    /\ handlers[h].action.destination = "addr"
    /\ handlers[h].action.currencytype = "siacoins"
    /\ handlers[h].shown = << AmountDestinationNotice >>
    /\ ~Called(h)

\* ------------------------------------------------------------------------
\* C4
\* ------------------------------------------------------------------------

\* C4 as stated: a SendCurrency handler that names a currency other than
\* "siacoins" and "siafunds", such as "bogus", fails with the
\* invalid-currency notification, whatever its amount and destination,
\* without a conversion and without a siadCall.
C4_InvalidCurrencyAlways ==
  \A h \in DOMAIN handlers :
    LET hd == handlers[h]
    IN  ( /\ hd.kind = "SEND_CURRENCY"
          /\ ~Missing(hd.action.currencytype)
          /\ hd.action.currencytype \notin { "siacoins", "siafunds" } ) =>
          /\ hd.shown = << InvalidCurrencyNotice >>
          /\ hd.conversions = <<>>
          /\ ~Called(h)

\* C4 as amended: a SendCurrency handler whose amount, destination and
\* currencytype are all defined and non-empty and whose currencytype is
\* neither "siacoins" nor "siafunds" has terminated with the
\* invalid-currency notification, without a conversion and without a
\* siadCall.
C4_InvalidCurrencyWhenFieldsPresent ==
  \A h \in DOMAIN handlers :
    LET hd == handlers[h]
    IN  ( /\ hd.kind = "SEND_CURRENCY"
          /\ ~Missing(hd.action.amount) /\ ~Missing(hd.action.destination)
          /\ ~Missing(hd.action.currencytype)
          /\ hd.action.currencytype \notin { "siacoins", "siafunds" } ) =>
          /\ Terminated(h)
          /\ hd.shown = << InvalidCurrencyNotice >>
          /\ hd.conversions = <<>>
          /\ ~Called(h)
          /\ hd.out = <<>> /\ hd.todo = <<>>

\* A send of "5" to "addr" in the currency "bogus" has failed.
C4_Witness ==
  \E h \in DOMAIN handlers :
    /\ handlers[h].kind = "SEND_CURRENCY"
    /\ handlers[h].action.currencytype = "bogus"
    /\ handlers[h].action.amount = "5"
    /\ handlers[h].action.destination = "addr"
    /\ handlers[h].shown = << InvalidCurrencyNotice >>

\* ------------------------------------------------------------------------
\* C5
\* ------------------------------------------------------------------------

SendUpdates ==
  { "CLOSE_SEND_PROMPT", "GET_BALANCE", "GET_TRANSACTIONS",
    "SET_SEND_AMOUNT", "SET_SEND_ADDRESS" }

\* The handlers of a kind forked for the actions handler h has put.
Refreshes(h, kind) == { c \in Children(handlers, h) : handlers[c].kind = kind }

\* C5: a SendCurrency handler whose POST resolved puts SET_SEND_AMOUNT('')
\* and SET_SEND_ADDRESS('') once each and triggers exactly one GET_BALANCE
\* and exactly one GET_TRANSACTIONS command, each forking one handler; a
\* SendCurrency handler that failed, in validation or in the call, puts no
\* action at all and forks no handler.
C5_SendClearsOnlyOnSuccess ==
  \A h \in DOMAIN handlers :
    LET hd == handlers[h]
    IN  hd.kind = "SEND_CURRENCY" =>
          /\ \A t \in SendUpdates : Count(h, t) <= 1
          /\ \A k \in { "GET_BALANCE", "GET_TRANSACTIONS" } :
               Cardinality(Refreshes(h, k)) = Count(h, k)
          /\ Cardinality(Children(handlers, h)) =
               Count(h, "GET_BALANCE") + Count(h, "GET_TRANSACTIONS")
          /\ (hd.reply.status = "resolved" /\ Terminated(h)) =>
               /\ \A t \in SendUpdates : Count(h, t) = 1
               /\ \A i \in 1..Len(hd.out) :
                    hd.out[i].type \in { "SET_SEND_AMOUNT", "SET_SEND_ADDRESS" }
                      => hd.out[i].args = << "" >>
          /\ Failed(h) =>
               /\ Terminated(h)
               /\ hd.out = <<>> /\ hd.todo = <<>>
               /\ Children(handlers, h) = {}

\* A send has succeeded and terminated, with its two refreshes forked.
C5_Witness ==
  \E h \in DOMAIN handlers :
    /\ handlers[h].kind = "SEND_CURRENCY"
    /\ handlers[h].reply.status = "resolved" /\ Terminated(h)
    /\ Count(h, "SET_SEND_AMOUNT") = 1 /\ Count(h, "SET_SEND_ADDRESS") = 1
    /\ Cardinality(Refreshes(h, "GET_BALANCE")) = 1
    /\ Cardinality(Refreshes(h, "GET_TRANSACTIONS")) = 1

\* ------------------------------------------------------------------------
\* C6
\* ------------------------------------------------------------------------

\* C6: an UnlockWallet handler whose call was rejected puts
\* HANDLE_PASSWORD_CHANGE('') and then WALLET_UNLOCK_ERROR(e.message), each
\* once and in that order, and nothing else: neither SET_ENCRYPTED nor
\* SET_UNLOCKED.
C6_UnlockFailureClearsThenReports ==
  \A h \in DOMAIN handlers :
    LET hd == handlers[h]
        expected == << Action("HANDLE_PASSWORD_CHANGE", << "" >>),
                       Action("WALLET_UNLOCK_ERROR", << hd.reply.e.message >>) >>
    IN  (hd.kind = "UNLOCK_WALLET" /\ hd.reply.status = "rejected") =>
          /\ IsPrefix(hd.out, expected)
          /\ Terminated(h) => hd.out = expected
          /\ hd.pc \in { "put", "done" }

\* A rejected unlock has terminated after the clear and the error.
C6_Witness ==
  \E h \in DOMAIN handlers :
    /\ handlers[h].kind = "UNLOCK_WALLET"
    /\ handlers[h].reply.status = "rejected" /\ Terminated(h)
    /\ handlers[h].reply.e.message = "siad failure"
    /\ Types(h) = << "HANDLE_PASSWORD_CHANGE", "WALLET_UNLOCK_ERROR" >>

\* ------------------------------------------------------------------------
\* C7
\* ------------------------------------------------------------------------

SetUnlocked == Action("SET_UNLOCKED", <<>>)

\* In every state: a CreateWallet handler puts SHOW_NEW_WALLET_DIALOG and
\* then DISMISS_NEW_WALLET_DIALOG and nothing else; it is past its take
\* (about to dismiss, or dismissed) only if the take received a
\* SET_UNLOCKED action; and as long as it has received none after showing
\* the dialog it stays suspended in the take.
C7_State ==
  \A h \in DOMAIN handlers :
    LET hd == handlers[h]
    IN  hd.kind = "CREATE_NEW_WALLET" =>
          /\ IsPrefix(Types(h), << "SHOW_NEW_WALLET_DIALOG", "DISMISS_NEW_WALLET_DIALOG" >>)
          /\ (Count(h, "SHOW_NEW_WALLET_DIALOG") = 1 /\ hd.pc # "take") =>
               /\ Len(hd.taken) = 1
               /\ hd.taken[1].action = SetUnlocked
          /\ (Types(h) = << "SHOW_NEW_WALLET_DIALOG" >> /\ hd.taken = <<>>) =>
               hd.pc = "take"

\* In every step: the take of a CreateWallet handler receives an action only
\* in a step in which another handler puts SET_UNLOCKED, and only if the
\* handler had put SHOW_NEW_WALLET_DIALOG before that step.
C7_Step ==
  \A h \in DOMAIN handlers :
    (handlers[h].kind = "CREATE_NEW_WALLET" /\ handlers'[h].taken # handlers[h].taken) =>
      /\ Types(h) = << "SHOW_NEW_WALLET_DIALOG" >>
      /\ handlers[h].pc = "take" /\ handlers[h].taken = <<>>
      /\ \E g \in DOMAIN handlers \ { h } :
           /\ handlers'[g].out = Append(handlers[g].out, SetUnlocked)
           /\ handlers'[h].taken = << [ action |-> SetUnlocked, from |-> g ] >>

\* C7: a CreateWallet handler puts DISMISS_NEW_WALLET_DIALOG only after it
\* has put SHOW_NEW_WALLET_DIALOG and a SET_UNLOCKED action was dispatched
\* after that; a SET_UNLOCKED dispatched before SHOW_NEW_WALLET_DIALOG does
\* not release the handler.
C7_DismissOnlyAfterLaterUnlock == []C7_State /\ [][C7_Step]_vars

\* One SET_UNLOCKED action, put by g, released a CreateWallet handler that
\* had shown its dialog; a second CreateWallet handler, which showed its
\* dialog after that action, is still suspended.
C7_Witness ==
  \E h1, h2, g \in DOMAIN handlers :
    /\ handlers[h1].kind = "CREATE_NEW_WALLET"
    /\ Types(h1) = << "SHOW_NEW_WALLET_DIALOG", "DISMISS_NEW_WALLET_DIALOG" >>
    /\ handlers[h1].taken = << [ action |-> SetUnlocked, from |-> g ] >>
    /\ handlers[h2].kind = "CREATE_NEW_WALLET"
    /\ Types(h2) = << "SHOW_NEW_WALLET_DIALOG" >>
    /\ handlers[h2].pc = "take"
    /\ Count(g, "SET_UNLOCKED") = 1
    /\ \A f \in DOMAIN handlers \ { g } : Count(f, "SET_UNLOCKED") = 0

\* ------------------------------------------------------------------------
\* C8
\* ------------------------------------------------------------------------

\* C8: a poll-style handler (GetLockStatus, GetBalance, GetTransactions,
\* GetSyncState) whose call was rejected has terminated with one console
\* entry: it has put no action, shown no notification and forked nothing.
C8_PollFailureIsSilent ==
  \A h \in DOMAIN handlers :
    LET hd == handlers[h]
    IN  (hd.kind \in PollKinds /\ Failed(h)) =>
          /\ Terminated(h)
          /\ hd.out = <<>> /\ hd.todo = <<>>
          /\ hd.shown = <<>>
          /\ Len(hd.console) = 1
          /\ Children(handlers, h) = {}

\* A balance poll started by the UI has failed.
C8_Witness ==
  \E h \in UIHandlers :
    /\ handlers[h].kind = "GET_BALANCE"
    /\ handlers[h].reply.status = "rejected"
    /\ handlers[h].console # <<>>

\* ------------------------------------------------------------------------
\* C9
\* ------------------------------------------------------------------------

\* C9: a failed LockWallet, CreateWallet, GetNewReceiveAddress or
\* SendCurrency handler has shown exactly one generic notification and puts
\* no WALLET_UNLOCK_ERROR; a failed UnlockWallet handler shows no generic
\* notification and puts exactly one WALLET_UNLOCK_ERROR.
C9_ErrorChannelsDisjoint ==
  \A h \in DOMAIN handlers :
    LET hd == handlers[h]
    IN  Failed(h) =>
          /\ hd.kind \in NotifyKinds =>
               /\ Len(hd.shown) = 1
               /\ Count(h, "WALLET_UNLOCK_ERROR") = 0
               /\ \A i \in 1..Len(hd.todo) :
                    hd.todo[i].action.type # "WALLET_UNLOCK_ERROR"
          /\ hd.kind = "UNLOCK_WALLET" =>
               /\ hd.shown = <<>>
               /\ Count(h, "WALLET_UNLOCK_ERROR") <= 1
               /\ Terminated(h) => Count(h, "WALLET_UNLOCK_ERROR") = 1

\* A rejected unlock whose error has no message has terminated with its
\* WALLET_UNLOCK_ERROR and without a notification.
C9_Witness ==
  \E h \in DOMAIN handlers :
    /\ handlers[h].kind = "UNLOCK_WALLET"
    /\ Failed(h) /\ Terminated(h)
    /\ handlers[h].reply.e.message = Undefined
    /\ Count(h, "WALLET_UNLOCK_ERROR") = 1
    /\ handlers[h].shown = <<>>

\* ------------------------------------------------------------------------
\* C10
\* ------------------------------------------------------------------------

\* The handlers forked for commands of a kind.
HandlersOf(kind) == { h \in DOMAIN handlers : handlers[h].kind = kind }

\* In every state: the handlers of each kind are as many as the commands of
\* that kind dispatched, and each has issued its own siadCall unless it
\* threw before the call.
C10_State ==
  /\ \A k \in Kinds : Cardinality(HandlersOf(k)) = ncmd[k]
  /\ \A h \in DOMAIN handlers : Called(h) \/ handlers[h].reply.status = "thrown"

\* In every step: no handler goes away; a command dispatched while others
\* are in flight forks its handler at once and leaves the others as they
\* are; and a handler waiting for its call changes only by the settlement
\* of its own call.
C10_Step ==
  /\ DOMAIN handlers \subseteq DOMAIN handlers'
  /\ \A k \in Kinds :
       ncmd'[k] # ncmd[k] =>
         /\ ncmd'[k] = ncmd[k] + 1
         /\ \E n \in DOMAIN handlers' \ DOMAIN handlers :
              /\ DOMAIN handlers' = DOMAIN handlers \cup { n }
              /\ handlers'[n].kind = k
              /\ handlers'[n].pc = "call" \/ handlers'[n].reply.status = "thrown"
  /\ \A h \in DOMAIN handlers :
       (handlers[h].pc = "call" /\ handlers'[h] # handlers[h]) =>
         /\ handlers'[h].reply.status \in { "resolved", "rejected" }
         /\ \A g \in DOMAIN handlers \ { h } : handlers'[g] = handlers[g]
         /\ DOMAIN handlers' = DOMAIN handlers

\* C10: commands of one kind are neither deduplicated nor queued: N commands
\* dispatched while earlier ones are in flight give N handlers and N
\* siadCalls, and each handler's call settles on its own.
C10_NoDedupNoQueue == []C10_State /\ [][C10_Step]_vars

\* Two handlers of one kind, one still waiting for its call while the
\* other's call was rejected and that handler has finished.
C10_Witness ==
  \E h1, h2 \in UIHandlers :
    /\ h1 # h2
    /\ handlers[h1].kind = handlers[h2].kind
    /\ handlers[h1].pc = "call"
    /\ handlers[h2].reply.status = "rejected" /\ Terminated(h2)
    /\ Called(h1) /\ Called(h2)

\* ------------------------------------------------------------------------
\* C11
\* ------------------------------------------------------------------------

\* In every state: a handler waiting for its call has issued the call, and
\* the call can settle whatever the other handlers are doing (Settle has one
\* guard for both outcomes; the rejection is the one probed); a handler that
\* has yielded a put can have it run; and the only handler suspended
\* otherwise is a CreateWallet handler in its take of SET_UNLOCKED after
\* SHOW_NEW_WALLET_DIALOG.
C11_State ==
  \A h \in DOMAIN handlers :
    LET hd == handlers[h]
    IN  /\ hd.pc = "call" =>
             /\ Called(h) /\ hd.reply = Pending
             /\ ENABLED Reject(h)
        /\ hd.pc = "put" => ENABLED RunPut(h)
        /\ hd.pc = "take" =>
             /\ hd.kind = "CREATE_NEW_WALLET"
             /\ Head(hd.todo) = take("SET_UNLOCKED")
             /\ Types(h) = << "SHOW_NEW_WALLET_DIALOG" >>

\* In every step: a command dispatched while a handler of another kind
\* waits for its call forks a handler that has issued its own call, and the
\* waiting handler is left as it is; a step of one handler changes another
\* handler only by forking it or by resuming its take.
C11_Step ==
  /\ \A k \in Kinds :
       ncmd'[k] > ncmd[k] =>
         \E n \in DOMAIN handlers' \ DOMAIN handlers :
           /\ handlers'[n].kind = k
           /\ handlers'[n].pc = "call" \/ handlers'[n].reply.status = "thrown"
           /\ \A g \in DOMAIN handlers :
                (handlers[g].kind # k /\ handlers[g].pc = "call") =>
                  handlers'[g] = handlers[g]
  /\ \A h, g \in DOMAIN handlers :
       (h # g /\ handlers'[h] # handlers[h] /\ handlers'[g] # handlers[g]) =>
         handlers[h].pc = "take" \/ handlers[g].pc = "take"

\* C11: commands of different kinds do not exclude one another: while the
\* call of one command is pending, a command of another kind still issues
\* its own call and runs to its outcome, and no handler but a CreateWallet
\* handler waiting for SET_UNLOCKED waits on another handler.
C11_NoMutualExclusion == []C11_State /\ [][C11_Step]_vars

\* An unlock dispatched first still waits for its call while a command of
\* another kind, dispatched after it, has resolved and terminated.
C11_Witness ==
  /\ << 1 >> \in DOMAIN handlers /\ << 2 >> \in DOMAIN handlers
  /\ handlers[<< 1 >>].kind = "UNLOCK_WALLET"
  /\ handlers[<< 1 >>].pc = "call"
  /\ handlers[<< 2 >>].kind \notin { "UNLOCK_WALLET", "CREATE_NEW_WALLET" }
  /\ handlers[<< 2 >>].reply.status = "resolved"
  /\ Terminated(<< 2 >>) /\ Succeeded(<< 2 >>)

\* ------------------------------------------------------------------------
\* C12
\* ------------------------------------------------------------------------

\* The /wallet response of the example: 2500000000000000000000000 hastings
\* confirmed, nothing unconfirmed, 10 siafunds.
C12_Response ==
  [ confirmedsiacoinbalance |-> BigNumber(25, 23),
    unconfirmedincomingsiacoins |-> BigNumber(0, 0),
    unconfirmedoutgoingsiacoins |-> BigNumber(0, 0),
    siafundbalance |-> 10 ]

\* The GetBalance handlers that have put their action on the example response.
C12_Handlers ==
  { h \in DOMAIN handlers :
      /\ handlers[h].kind = "GET_BALANCE"
      /\ handlers[h].reply = Resolved(C12_Response)
      /\ handlers[h].out # <<>> }

Released == { h \in HandlersOf("CREATE_NEW_WALLET") : handlers[h].taken # <<>> }

\* The handler that put the action which released handler h.
Releaser(h) == handlers[h].taken[1].from

\* C13 as stated: a CreateWallet handler is released, and so puts
\* DISMISS_NEW_WALLET_DIALOG, only by the SET_UNLOCKED of an UnlockWallet
\* handler whose call succeeded.
C13_ReleasedByUnlockWalletOnly ==
  \A h \in HandlersOf("CREATE_NEW_WALLET") :
    (Count(h, "DISMISS_NEW_WALLET_DIALOG") > 0 \/ h \in Released) =>
      /\ h \in Released
      /\ handlers[Releaser(h)].kind = "UNLOCK_WALLET"
      /\ handlers[Releaser(h)].reply.status = "resolved"

\* C13 as amended: a CreateWallet handler is released, and so puts
\* DISMISS_NEW_WALLET_DIALOG, only by a SET_UNLOCKED action put by another
\* handler whose call succeeded: an UnlockWallet handler, or a GetLockStatus
\* handler whose response reports unlocked.
C13_ReleasedByUnlockOrLockStatus ==
  \A h \in HandlersOf("CREATE_NEW_WALLET") :
    (Count(h, "DISMISS_NEW_WALLET_DIALOG") > 0 \/ h \in Released) =>
      /\ h \in Released
      /\ Releaser(h) # h
      /\ handlers[h].taken[1].action = SetUnlocked
      /\ Count(Releaser(h), "SET_UNLOCKED") = 1
      /\ LET g == handlers[Releaser(h)]
         IN  /\ g.reply.status = "resolved"
             /\ \/ g.kind = "UNLOCK_WALLET"
                \/ g.kind = "GET_LOCK_STATUS" /\ g.reply.response.unlocked

\* A CreateWallet handler has dismissed its dialog, released by a
\* GetLockStatus handler, in a run without any UnlockWallet command.
C13_Witness ==
  \E h \in Released :
    /\ Types(h) = << "SHOW_NEW_WALLET_DIALOG", "DISMISS_NEW_WALLET_DIALOG" >>
    /\ handlers[Releaser(h)].kind = "GET_LOCK_STATUS"
    /\ HandlersOf("UNLOCK_WALLET") = {}

\* ------------------------------------------------------------------------
\* C14
\* ------------------------------------------------------------------------

\* Some handler puts SET_UNLOCKED in this step.
PutsSetUnlocked ==
  \E g \in DOMAIN handlers :
    handlers'[g].out = Append(handlers[g].out, SetUnlocked)

\* Handler p is a CreateWallet handler that has shown its dialog and is
\* suspended in its take.
Waiting(p) ==
  /\ p \in DOMAIN handlers
  /\ handlers[p].kind = "CREATE_NEW_WALLET"
  /\ handlers[p].pc = "take"

\* Handler p is a CreateWallet handler that has put SHOW_NEW_WALLET_DIALOG
\* and then DISMISS_NEW_WALLET_DIALOG, once each, and has returned.
Completed(p) ==
  /\ p \in DOMAIN handlers
  /\ handlers[p].kind = "CREATE_NEW_WALLET"
  /\ Terminated(p)
  /\ Types(p) = << "SHOW_NEW_WALLET_DIALOG", "DISMISS_NEW_WALLET_DIALOG" >>

\* In every state: a CreateWallet handler that has shown its dialog has
\* returned only after the dismissal, and it has put nothing but the two.
C14_State ==
  \A h \in HandlersOf("CREATE_NEW_WALLET") :
    /\ Count(h, "SHOW_NEW_WALLET_DIALOG") <= 1
    /\ Count(h, "DISMISS_NEW_WALLET_DIALOG") <= 1
    /\ (Terminated(h) /\ Count(h, "SHOW_NEW_WALLET_DIALOG") = 1) => Completed(h)

\* In every step: a waiting CreateWallet handler stays as it is, suspended
\* and putting nothing, in every step in which no SET_UNLOCKED is put, and it
\* leaves its take in every step in which one is put.
C14_Step ==
  \A h \in DOMAIN handlers :
    Waiting(h) =>
      /\ ~PutsSetUnlocked => handlers'[h] = handlers[h]
      /\ PutsSetUnlocked =>
           /\ handlers'[h].pc = "put"
           /\ handlers'[h].out = handlers[h].out
           /\ Head(handlers'[h].todo) = put(Action("DISMISS_NEW_WALLET_DIALOG", <<>>))

\* C14: after SHOW_NEW_WALLET_DIALOG a CreateWallet handler completes if and
\* only if a SET_UNLOCKED is put afterwards: without one it stays suspended
\* and puts nothing further, and once one is put the handler goes on to put
\* DISMISS_NEW_WALLET_DIALOG exactly once and returns.
C14_CompletesIffUnlocked ==
  /\ []C14_State
  /\ [][C14_Step]_vars
  /\ \A p \in WaitPaths :
       (p \in DOMAIN handlers /\ handlers[p].kind = "CREATE_NEW_WALLET"
          /\ handlers[p].taken # <<>>) ~> Completed(p)

\* A CreateWallet handler has completed after a SET_UNLOCKED.
C14_Witness ==
  \E p \in WaitPaths : Completed(p) /\ handlers[p].taken # <<>>

\* ------------------------------------------------------------------------
\* C15
\* ------------------------------------------------------------------------

\* C15: an UnlockWallet handler whose call resolved puts SET_ENCRYPTED, then
\* SET_UNLOCKED, then HANDLE_PASSWORD_CHANGE(''), and nothing else, so no
\* WALLET_UNLOCK_ERROR; and every UnlockWallet handler that has returned,
\* after success or failure, has put HANDLE_PASSWORD_CHANGE('') exactly once.
C15_UnlockSuccessOrder ==
  \A h \in HandlersOf("UNLOCK_WALLET") :
    LET hd == handlers[h]
        expected == << Action("SET_ENCRYPTED", <<>>),
                       Action("SET_UNLOCKED", <<>>),
                       Action("HANDLE_PASSWORD_CHANGE", << "" >>) >>
    IN  /\ hd.reply.status = "resolved" =>
             /\ IsPrefix(hd.out, expected)
             /\ Terminated(h) => hd.out = expected
             /\ hd.pc \in { "put", "done" }
             /\ hd.shown = <<>> /\ hd.console = <<>>
        /\ hd.pc = "call" => hd.out = <<>>
        /\ Count(h, "HANDLE_PASSWORD_CHANGE") <= 1
        /\ Terminated(h) =>
             /\ Count(h, "HANDLE_PASSWORD_CHANGE") = 1
             /\ \E i \in 1..Len(hd.out) :
                  hd.out[i] = Action("HANDLE_PASSWORD_CHANGE", << "" >>)

\* An unlock has succeeded and returned after its three puts.
C15_Witness ==
  \E h \in HandlersOf("UNLOCK_WALLET") :
    /\ handlers[h].reply.status = "resolved" /\ Terminated(h)
    /\ Types(h) = << "SET_ENCRYPTED", "SET_UNLOCKED", "HANDLE_PASSWORD_CHANGE" >>
    /\ handlers[h].request.qs.encryptionpassword = "hunter2"

\* ------------------------------------------------------------------------
\* C16
\* ------------------------------------------------------------------------

\* C16: a SendCurrency handler puts CLOSE_SEND_PROMPT, GET_BALANCE,
\* GET_TRANSACTIONS, SET_SEND_AMOUNT('') and SET_SEND_ADDRESS('') in this
\* order; the balance refresh is forked before the transactions refresh;
\* and it puts none of them unless its POST has resolved.
C16_SendSuccessOrder ==
  \A h \in HandlersOf("SEND_CURRENCY") :
    LET hd == handlers[h]
        expected == << Action("CLOSE_SEND_PROMPT", <<>>),
                       Action("GET_BALANCE", <<>>),
                       Action("GET_TRANSACTIONS", <<>>),
                       Action("SET_SEND_AMOUNT", << "" >>),
                       Action("SET_SEND_ADDRESS", << "" >>) >>
    IN  /\ IsPrefix(hd.out, expected)
        /\ (hd.out # <<>> \/ Children(handlers, h) # {}) =>
             /\ hd.reply.status = "resolved"
             /\ Called(h) /\ hd.request.method = "POST"
        /\ (hd.reply.status = "resolved" /\ Terminated(h)) => hd.out = expected
        /\ \A c \in Children(handlers, h) :
             handlers[c].kind =
               IF c = Append(h, 1) THEN "GET_BALANCE" ELSE "GET_TRANSACTIONS"
        /\ Cardinality(Children(handlers, h)) <= 2
        /\ Append(h, 2) \in DOMAIN handlers => Append(h, 1) \in DOMAIN handlers

\* A send has put CLOSE_SEND_PROMPT and GET_BALANCE and has still to put
\* GET_TRANSACTIONS: the balance refresh is forked, the other is not.
C16_Witness ==
  \E h \in HandlersOf("SEND_CURRENCY") :
    /\ Types(h) = << "CLOSE_SEND_PROMPT", "GET_BALANCE" >>
    /\ Refreshes(h, "GET_BALANCE") # {}
    /\ Refreshes(h, "GET_TRANSACTIONS") = {}
    /\ Head(handlers[h].todo) = put(Action("GET_TRANSACTIONS", <<>>))

\* ------------------------------------------------------------------------
\* C17
\* ------------------------------------------------------------------------

\* C17: a LockWallet handler whose POST /wallet/lock resolved puts
\* SET_ENCRYPTED and then SET_LOCKED; one whose call was rejected puts no
\* action and shows exactly one notification; and no LockWallet handler puts
\* SET_UNLOCKED or SET_UNENCRYPTED.
C17_LockEvents ==
  \A h \in HandlersOf("LOCK_WALLET") :
    LET hd == handlers[h]
        expected == << Action("SET_ENCRYPTED", <<>>), Action("SET_LOCKED", <<>>) >>
    IN  /\ hd.request = Post("/wallet/lock", 0, <<>>)
        /\ hd.reply.status = "resolved" =>
             /\ IsPrefix(hd.out, expected)
             /\ Terminated(h) => hd.out = expected
             /\ hd.pc \in { "put", "done" }
             /\ hd.shown = <<>>
        /\ hd.reply.status = "rejected" =>
             /\ Terminated(h)
             /\ hd.out = <<>> /\ hd.todo = <<>>
             /\ hd.shown = << sendError(hd.reply.e) >>
        /\ hd.pc = "call" => hd.out = <<>> /\ hd.shown = <<>>
        /\ Emitted(h) \cap { "SET_UNLOCKED", "SET_UNENCRYPTED" } = {}

\* One lock has succeeded and returned; another has failed with its
\* notification.
C17_Witness ==
  \E h1, h2 \in HandlersOf("LOCK_WALLET") :
    /\ Terminated(h1) /\ Types(h1) = << "SET_ENCRYPTED", "SET_LOCKED" >>
    /\ Terminated(h2) /\ handlers[h2].reply.status = "rejected"
    /\ Len(handlers[h2].shown) = 1 /\ handlers[h2].out = <<>>

\* ------------------------------------------------------------------------
\* C18
\* ------------------------------------------------------------------------

\* The number of hundredths of a siacoin (10^22 hastings) in an amount of
\* hastings that is a whole number of them.
Hundredths(hastings) ==
  IF hastings.n = 0 THEN 0 ELSE hastings.n * Pow10(hastings.exp - 22)

\* The value of a sequence of decimal digit characters.
RECURSIVE DigitsValue(_)
DigitsValue(ds) ==
  IF ds = <<>> THEN 0
  ELSE 10 * DigitsValue(SubSeq(ds, 1, Len(ds) - 1))
         + (CHOOSE d \in 0..9 : DigitChar(d) = ds[Len(ds)])

\* The number of hundredths a decimal string with at most two decimal
\* places stands for.
ParseHundredths(str) ==
  LET neg == str # <<>> /\ str[1] = "-"
      body == IF neg THEN Tail(str) ELSE str
      dots == { i \in 1..Len(body) : body[i] = "." }
      dot == IF dots = {} THEN Len(body) + 1 ELSE CHOOSE i \in dots : TRUE
      whole == SubSeq(body, 1, dot - 1)
      frac == SubSeq(body, dot + 1, Len(body))
      padded == frac \o Zeros(2 - Len(frac))
      v == 100 * DigitsValue(whole) + DigitsValue(padded)
  IN  IF neg THEN -v ELSE v

Total(type) ==
  Cardinality({ e \in UNION { { h } \X (1..Len(handlers[h].out)) : h \in DOMAIN handlers } :
                  handlers[e[1]].out[e[2]].type = type })

\* In every state: the DISMISS_NEW_WALLET_DIALOG actions put so far are at
\* most as many as the SHOW_NEW_WALLET_DIALOG actions, and no CreateWallet
\* handler has put more than one of either or taken more than one action.
C19_State ==
  /\ Total("DISMISS_NEW_WALLET_DIALOG") <= Total("SHOW_NEW_WALLET_DIALOG")
  /\ \A h \in HandlersOf("CREATE_NEW_WALLET") :
       /\ Count(h, "DISMISS_NEW_WALLET_DIALOG") <= Count(h, "SHOW_NEW_WALLET_DIALOG")
       /\ Count(h, "SHOW_NEW_WALLET_DIALOG") <= 1
       /\ Len(handlers[h].taken) <= 1
       /\ Terminated(h) /\ handlers[h].taken # <<>> =>
            Count(h, "DISMISS_NEW_WALLET_DIALOG") = 1

\* In every step: when a handler g puts SET_UNLOCKED, every CreateWallet
\* handler waiting in its take at that moment receives that action and goes
\* on to its put of DISMISS_NEW_WALLET_DIALOG; none is left waiting.
C19_Step ==
  \A g \in DOMAIN handlers :
    handlers'[g].out = Append(handlers[g].out, SetUnlocked) =>
      \A h \in DOMAIN handlers :
        Waiting(h) =>
          /\ handlers'[h].taken = << [ action |-> SetUnlocked, from |-> g ] >>
          /\ handlers'[h].pc = "put"
          /\ handlers'[h].todo = << put(Action("DISMISS_NEW_WALLET_DIALOG", <<>>)) >>

\* C19: one SET_UNLOCKED action releases every CreateWallet handler that is
\* waiting when it is dispatched, each released handler puts
\* DISMISS_NEW_WALLET_DIALOG exactly once, and at every point the dialogs
\* dismissed are at most as many as the dialogs shown.
C19_OneUnlockReleasesAll == []C19_State /\ [][C19_Step]_vars

\* Two CreateWallet handlers were released by the same, single SET_UNLOCKED
\* action and both have dismissed their dialogs.
C19_Witness ==
  \E h1, h2 \in Released :
    /\ h1 # h2
    /\ Releaser(h1) = Releaser(h2)
    /\ Total("SET_UNLOCKED") = 1
    /\ Count(h1, "DISMISS_NEW_WALLET_DIALOG") = 1
    /\ Count(h2, "DISMISS_NEW_WALLET_DIALOG") = 1
    /\ Total("DISMISS_NEW_WALLET_DIALOG") = 2

\* ------------------------------------------------------------------------
\* C20
\* ------------------------------------------------------------------------

\* No GetLockStatus handler has had a response that reports unlocked.
NoLockStatusUnlocked ==
  \A l \in HandlersOf("GET_LOCK_STATUS") :
    ~(handlers[l].reply.status = "resolved" /\ handlers[l].reply.response.unlocked)

\* CreateWallet handler h has shown its dialog, has not been released and
\* has not dismissed the dialog.
StillWaiting(h) ==
  /\ handlers[h].pc = "take"
  /\ handlers[h].taken = <<>>
  /\ Count(h, "DISMISS_NEW_WALLET_DIALOG") = 0

\* C20 as stated: a CreateWallet handler that has shown its dialog is not
\* released as long as every UnlockWallet command issued after
\* SHOW_NEW_WALLET_DIALOG has failed and no GetLockStatus response reports
\* unlocked.  The unlocks dispatched after the CreateWallet command itself
\* include all those issued after its dialog was shown.
C20_UnlocksIssuedAfterShowFail ==
  \A h \in HandlersOf("CREATE_NEW_WALLET") :
    ( /\ Count(h, "SHOW_NEW_WALLET_DIALOG") = 1
      /\ NoLockStatusUnlocked
      /\ \A u \in HandlersOf("UNLOCK_WALLET") :
           u[1] > h[1] => handlers[u].reply.status # "resolved" ) =>
      StillWaiting(h)

\* C20 as amended: as long as no UnlockWallet command has succeeded,
\* whenever it was issued, and no GetLockStatus response reports unlocked,
\* no handler has put SET_UNLOCKED and every CreateWallet handler that has
\* shown its dialog is still waiting, its dialog not dismissed; and each
\* UnlockWallet handler that failed and returned has put
\* HANDLE_PASSWORD_CHANGE('') and WALLET_UNLOCK_ERROR.
C20_FailedUnlockNeverReleases ==
  /\ ( /\ NoLockStatusUnlocked
       /\ \A u \in HandlersOf("UNLOCK_WALLET") :
            handlers[u].reply.status # "resolved" ) =>
       /\ Total("SET_UNLOCKED") = 0
       /\ Total("DISMISS_NEW_WALLET_DIALOG") = 0
       /\ \A h \in HandlersOf("CREATE_NEW_WALLET") :
            Count(h, "SHOW_NEW_WALLET_DIALOG") = 1 => StillWaiting(h)
  /\ \A u \in HandlersOf("UNLOCK_WALLET") :
       (handlers[u].reply.status = "rejected" /\ Terminated(u)) =>
         /\ Count(u, "HANDLE_PASSWORD_CHANGE") = 1
         /\ Count(u, "WALLET_UNLOCK_ERROR") = 1
         /\ Count(u, "SET_UNLOCKED") = 0

\* A CreateWallet handler has shown its dialog and is still waiting after
\* two unlocks, dispatched after it, have failed and returned.
C20_Witness ==
  \E h \in HandlersOf("CREATE_NEW_WALLET") :
    /\ Count(h, "SHOW_NEW_WALLET_DIALOG") = 1 /\ StillWaiting(h)
    /\ Cardinality(HandlersOf("UNLOCK_WALLET")) = 2
    /\ \A u \in HandlersOf("UNLOCK_WALLET") :
         /\ u[1] > h[1]
         /\ handlers[u].reply.status = "rejected" /\ Terminated(u)
         /\ Types(u) = << "HANDLE_PASSWORD_CHANGE", "WALLET_UNLOCK_ERROR" >>

====
